---- MODULE Spec2Model ----
(***************************************************************************)
(* A model of the action primitives of simple-reconnect-daemon             *)
(* (src/actions.c): influx (send one line to a metrics endpoint over a     *)
(* persistent non-blocking socket), run_command (fork a shell command and  *)
(* wait for it under a deadline), log_to_file (append a line to a file)    *)
(* and restart_system / restart_service (one method call over sd-bus).     *)
(* Each primitive has its own specification over the shared variables.     *)
(*                                                                         *)
(* Time in influx is counted in ticks of 1/TicksPerSec second: the         *)
(* configured timeout is a float, while time() has one-second resolution.  *)
(* Time in run_command is counted in ticks of 50 ms, so that the 100 ms    *)
(* usleep of the poll loop is DeltaTicks ticks.                            *)
(***************************************************************************)
EXTENDS Integers, FiniteSets, Sequences, TLC

\* ---------------------------------------------------------------- bounds
\* largest configured action->timeout, in ticks
MaxTimeout == 4
\* longest time, in ticks, after which a wait without timeout still returns
MaxBlock == 3
\* resolution of the influx clock: ticks per second
TicksPerSec == 2
\* largest timeout_ms of run_command, in ticks of 50 ms
MaxTimeoutMs == 4
\* longest life of a command that ends by itself, in ticks
MaxLife == 5
\* last tick of run_command's clock
MaxNow == 8
\* most output blocks a command writes
MaxOut == 3
\* blocks the pipe buffer holds
PipeCap == 2
\* most calls of log_to_file in one behaviour
MaxCalls == 3

\* longest line handed to influx, in characters
MaxLine == 2


\* the callers of log_to_file
Procs == {1, 2}
\* the header line and a line the file had before the first call, as they stand
\* in file_content beside the numbers of the calls
Header == 0
Old == -1
\* the unit names restart_service is called with
Units == {"a.service", "b.service", "c.timer", "d.mount"}
\* the negative errno values the sd-bus calls fail with
BusErrors == {-3, -2, -1}
\* the job paths a reply carries
Jobs == {"/job/1", "/job/2"}

\* the characters of a line, and the newline
Chars == {"a"}
NL == "\n"
\* the responses of the server: the bare status line with the empty line after
\* it, and one with more header lines than char answer[128] holds
ShortResp == 27
LongResp == 150
\* the bytes in the first piece of a response that arrives in two pieces
FirstChunk == 10

\* ------------------------------------------------------- program constants
\* "wait for maximum 10 seconds until we can write"
ConnectWaitSecs == 10
\* a response is classified once more than 22 bytes were read
MinAnswer == 23
\* char answer[128]
AnswerSize == 128
\* file descriptor returned by a successful socket()
SockFd == 3
\* usleep(delta_ms) with delta_ms = 1e5 microseconds: 100 ms, two ticks
DeltaTicks == 2

VARIABLES
    \* ---- influx: action_influx_t and the locals of one call
    timeout,        \* action->timeout, configured, in ticks
    conn_socket,    \* action->conn_socket
    sock_open,      \* whether the descriptor in conn_socket is open in the kernel
    pc,             \* position of the call: idle, header, body, read, blocked,
                    \* crashed
    timeout_left,   \* float timeout_left, in ticks
    clock,          \* sub-second phase of the wall clock, in ticks
    just_ready,     \* the last readiness wait reported the socket ready
    ret,            \* return value of the last call that returned, -1 before any
    \* ---- influx: history of the current call
    waited,         \* ticks spent blocked in epoll_wait in this call
    connected,      \* this call went through connect()
    entry_open,     \* sock_open when this call was entered
    entry_ret,      \* ret when this call was entered
    had_conn,       \* a connection existed or was created in this call
    answer_len,     \* read_bytes of the last read that ended the read loop
    \* ---- influx: the request of the current call
    line,           \* const char* actual_line, the same in every call
    body,           \* char body[line_len] after snprintf
    content_length, \* the number printed after "Content-Length: "
    hdr_sent,       \* what of the header block went to the socket: none, part, full
    body_state,     \* what of the body went to the socket: none, part, full
    body_sent,      \* the bytes of the body that went to the socket
    \* ---- influx: the receiving side of the connection
    rx,             \* bytes that arrived and were not read, as segments [tag, n]:
                    \* "ok"/"bad" n bytes from the start of a 204/another response,
                    \* "rest" n bytes from inside a response
    in_flight,      \* bytes the server sent that have not arrived, as segments;
                    \* "cont": the bytes that follow the last ones that arrived
    \* ---- influx: more history of the current call
    conn_state,     \* none, reused, sync, waited, refused, wait_failed
    reading,        \* a read or a wait for the response was started
    classified,     \* what strncmp looked at: none, own (the start of the response
                    \* to this call) or stale (bytes from inside a response)
    resp_tag,       \* what the server answered to this call: none, ok, bad
    io_failed,      \* the read phase ended by a timeout, an error or end of file
    term_at         \* the index of answer the terminator was stored at, -1 if
                    \* none was stored

ivars == <<timeout, conn_socket, sock_open, pc, timeout_left, clock, just_ready,
           ret, waited, connected, entry_open, entry_ret, had_conn, answer_len,
           line, body, content_length, hdr_sent, body_state, body_sent, rx,
           in_flight, conn_state, reading, classified, resp_tag, io_failed,
           term_at>>


VARIABLES
    \* ---- run_command: the arguments and locals of one call
    variant,        \* which run_command runs: "actions" (src/actions.c) or
                    \* "part_000" (src/unnamed/part_000)
    rpc,            \* position of the parent: idle, read0, poll, sleep, killwait
    timeout_ms,     \* timeout_ms, in ticks of 50 ms
    cmd_user,       \* cmd->user: "none", "valid" or "unknown" (does not resolve)
    now,            \* ticks since fork()
    start,          \* struct timespec start
    sleep_left,     \* ticks left of the running usleep
    rret,           \* return value of the last call that returned, -1 before any
    \* ---- run_command: the child process and the pipe
    child,          \* none, forked, running, zombie, reaped, escaped
    child_end,      \* how the child ended: none, exit, segv, term
    life,           \* ticks the command runs if no write blocks; MaxLife+1: forever
    ignores_term,   \* the command ignores SIGTERM
    out_left,       \* output blocks the command has still to write
    out_total,      \* output blocks the command writes in all
    pipe_len,       \* blocks in the pipe
    \* ---- run_command: history of the current call
    exited_at,      \* tick at which the child ended by itself, -1 if it did not
    kill_sent,      \* kill(pid, SIGTERM) was called
    cmd_executed,   \* the shell was executed
    returned_at,    \* tick at which the call returned
    fds_open        \* pipe descriptors open in the parent

rvars == <<variant, rpc, timeout_ms, cmd_user, now, start, sleep_left, rret, child,
           child_end, life, ignores_term, out_left, out_total, pipe_len,
           exited_at, kill_sent, cmd_executed, returned_at, fds_open>>

VARIABLES
    \* ---- log_to_file: the file and the action_log_t of the calls
    log_header,     \* action_log->header is set
    log_username,   \* action_log->username: "none", "valid" or "unknown"
    init_exists,    \* the file existed before the first call
    file_exists,    \* the file at action_log->path exists
    file_content,   \* its lines: Header, Old for a line it had before the first
                    \* call, i for the line of the i-th call
    file_chowned,   \* chown succeeded on the file
    \* ---- log_to_file: the locals of the call of each caller
    lpc,            \* position: idle, access, open, closed, crashed
    is_new,         \* int is_new
    line_no,        \* which call this is: the line it appends
    file_handle,    \* FILE *file is open
    ret_code,       \* int ret_code
    lret,           \* return value of the last call that returned, -1 before any
    \* ---- log_to_file: history
    n_calls,        \* calls entered so far
    all_ok,         \* every call so far returned success
    chown_failed    \* the last call could not set the owner

lvars == <<log_header, log_username, init_exists, file_exists, file_content,
           file_chowned, lpc, is_new, line_no, file_handle, ret_code, lret,
           n_calls, all_ok, chown_failed>>

VARIABLES
    \* ---- restart_system and restart_service
    bpc,            \* position: idle, opened, called
    bus_fn,         \* the function under way: "system" or "service"
    unit,           \* const char *name of restart_service, "" in restart_system
    obj_path,       \* the object path handed to sd_bus_call_method
    path,           \* const char *path read from the reply, "" before
    bus,            \* sd_bus *bus holds a connection
    msg,            \* sd_bus_message *msg (m) holds a reply
    error,          \* sd_bus_error error holds an error
    service_name,   \* char *service_name is allocated
    bus_r,          \* int r
    bret            \* return value of the last call that returned, -1 before any

bvars == <<bpc, bus_fn, unit, obj_path, path, bus, msg, error, service_name, bus_r,
           bret>>

vars == <<ivars, rvars, lvars, bvars>>

\* what the calls of one primitive leave alone
non_influx == <<rvars, lvars, bvars>>
non_run == <<ivars, lvars, bvars>>
non_log == <<ivars, rvars, bvars>>
non_bus == <<ivars, rvars, lvars>>

\* ------------------------------------------------------------ influx helpers

\* the emptiness test compared against the wrong bound: an open descriptor
\* counts as no connection
ConnEmptyWrongBound(s) == s <= SockFd

\* if (action->conn_socket <= 0): no connection yet
ConnEmpty(s) == s <= 0

\* t2 - t1 of two time() samples taken w ticks apart, in whole seconds
ElapsedSecs(w) == (clock + w) \div TicksPerSec

\* timeout_left -= t2 - t1
Deduct(w) == timeout_left - ElapsedSecs(w) * TicksPerSec

\* the timeouts an epoll_wait(.., timeout_left * 1e3) can wait: every duration up
\* to the timeout, and with a negative timeout any duration (no timeout at all)
WaitTimes(t) == IF t < 0 THEN 0..MaxBlock ELSE 0..t

\* the lines influx is called with
Lines == UNION {[1..n -> Chars] : n \in 0..MaxLine}

\* the characters "%s\n" produces for the string s
Format(s) == s \o <<NL>>

\* snprintf(buf, size, ..) of the characters s: at most size - 1 of them are
\* stored, and the terminator after them
Snprintf(size, s) ==
    IF size <= 0 THEN <<>>
    ELSE SubSeq(s, 1, IF Len(s) < size - 1 THEN Len(s) ELSE size - 1)

\* int line_len = strlen(actual_line) + 1
line_len(s) == Len(s) + 1

\* lines 354-366: the body, and strlen(body) printed as the Content-Length
Build == /\ body' = Snprintf(line_len(line), Format(line))
         /\ content_length' = Len(body')

\* the call returns before line 354
NoBuild == /\ body' = <<>>
           /\ content_length' = 0

\* the bytes in a sequence of segments
RECURSIVE Avail(_)
Avail(q) == IF q = <<>> THEN 0 ELSE Head(q).n + Avail(Tail(q))

\* the segments q after k more bytes tagged t arrived: bytes that continue a
\* response join the segment before them, or stand as bytes from inside a
\* response when the ones before them were read
Deliver(q, t, k) ==
    IF t \in {"cont", "rest"}
       THEN IF q = <<>>
               THEN <<[tag |-> "rest", n |-> k]>>
               ELSE [q EXCEPT ![Len(q)].n = @ + k]
       ELSE Append(q, [tag |-> t, n |-> k])

\* the segments q after read() took n bytes from their front
RECURSIVE Consume(_, _)
Consume(q, n) ==
    IF n = 0 \/ q = <<>> THEN q
    ELSE IF Head(q).n <= n
            THEN Consume(Tail(q), n - Head(q).n)
            ELSE <<[tag |-> "rest", n |-> Head(q).n - n]>> \o Tail(q)

\* the sizes of the piece of segment h that arrives next: a response arrives
\* whole or in two pieces
Chunks(h) == IF h.tag = "cont" \/ h.n <= FirstChunk THEN {h.n} ELSE {FirstChunk, h.n}

\* k bytes of the first segment in flight arrive
Arrive(k) ==
    LET h == Head(in_flight)
    IN /\ rx' = Deliver(rx, h.tag, k)
       /\ in_flight' = IF k = h.n
                          THEN Tail(in_flight)
                          ELSE <<[tag |-> "cont", n |-> h.n - k]>> \o Tail(in_flight)

\* strncmp(answer, start_success, 23) == 0 for the bytes read() takes from q
Matches(q) == Head(q).tag = "ok" /\ Head(q).n >= MinAnswer

\* CLOSE(action): close the socket, with what it holds, and clear the connection
CLOSE == /\ conn_socket' = -1
         /\ sock_open' = FALSE
         /\ rx' = <<>>
         /\ in_flight' = <<>>

\* return r
Return(r) == /\ pc' = "idle"
             /\ ret' = r
             /\ just_ready' = FALSE

Advance(w) == /\ clock' = (clock + w) % TicksPerSec
              /\ waited' = waited + w

NoWait == UNCHANGED <<clock, waited>>

\* what one call leaves alone of its request, its writes, the connection's
\* receiving side and its history
req == <<line, body, content_length>>
sent == <<hdr_sent, body_state, body_sent>>
net == <<rx, in_flight>>
hist == <<conn_state, reading, classified, resp_tag, io_failed, term_at>>

Entry == /\ pc = "idle"
         /\ entry_open' = sock_open
         /\ entry_ret' = ret
         /\ answer_len' = 0
         /\ hdr_sent' = "none"
         /\ body_state' = "none"
         /\ body_sent' = <<>>
         /\ reading' = FALSE
         /\ classified' = "none"
         /\ resp_tag' = "none"
         /\ io_failed' = FALSE
         /\ term_at' = -1
         /\ UNCHANGED <<timeout, line, non_influx>>

\* ------------------------------------------------------------ influx actions

\* no call of influx has been made
InfluxRest ==
    /\ sock_open = FALSE
    /\ pc = "idle"
    /\ timeout_left = 0
    /\ clock = 0
    /\ just_ready = FALSE
    /\ ret = -1
    /\ waited = 0
    /\ connected = FALSE
    /\ entry_open = FALSE
    /\ entry_ret = -1
    /\ had_conn = FALSE
    /\ answer_len = 0
    /\ body = <<>>
    /\ content_length = 0
    /\ hdr_sent = "none"
    /\ body_state = "none"
    /\ body_sent = <<>>
    /\ rx = <<>>
    /\ in_flight = <<>>
    /\ conn_state = "none"
    /\ reading = FALSE
    /\ classified = "none"
    /\ resp_tag = "none"
    /\ io_failed = FALSE
    /\ term_at = -1

\* no call of run_command has been made
RunRest ==
    /\ variant = "actions"
    /\ rpc = "idle"
    /\ timeout_ms = 0
    /\ cmd_user = "none"
    /\ now = 0
    /\ start = 0
    /\ sleep_left = 0
    /\ rret = -1
    /\ child = "none"
    /\ child_end = "none"
    /\ life = 0
    /\ ignores_term = FALSE
    /\ out_left = 0
    /\ out_total = 0
    /\ pipe_len = 0
    /\ exited_at = -1
    /\ kill_sent = FALSE
    /\ cmd_executed = FALSE
    /\ returned_at = 0
    /\ fds_open = 0

\* no call of log_to_file has been made
LogRest ==
    /\ file_exists = init_exists
    /\ file_content = IF init_exists THEN <<Old>> ELSE <<>>
    /\ file_chowned = FALSE
    /\ lpc = [p \in Procs |-> "idle"]
    /\ is_new = [p \in Procs |-> FALSE]
    /\ line_no = [p \in Procs |-> 0]
    /\ file_handle = [p \in Procs |-> FALSE]
    /\ ret_code = [p \in Procs |-> 0]
    /\ lret = -1
    /\ n_calls = 0
    /\ all_ok = TRUE
    /\ chown_failed = FALSE

\* one log action, without header and owner, on a file that does not exist
LogFixed ==
    /\ log_header = FALSE
    /\ log_username = "none"
    /\ init_exists = FALSE

\* no call of restart_system or restart_service has been made
BusRest ==
    /\ bpc = "idle"
    /\ bus_fn = "system"
    /\ unit = ""
    /\ obj_path = <<>>
    /\ path = ""
    /\ bus = FALSE
    /\ msg = FALSE
    /\ error = FALSE
    /\ service_name = FALSE
    /\ bus_r = 0
    /\ bret = -1

Init == /\ timeout \in 1..MaxTimeout
        /\ conn_socket \in {0, -1}
        /\ line \in Lines
        /\ InfluxRest
        /\ RunRest
        /\ LogFixed
        /\ LogRest
        /\ BusRest

\* a call that finds a connection: lines 263-269, 352
influx_reuse ==
    /\ Entry
    /\ ~ConnEmpty(conn_socket)
    /\ timeout_left' = timeout
    /\ \E c \in 0..(TicksPerSec - 1) : clock' = c
    /\ waited' = 0
    /\ connected' = FALSE
    /\ had_conn' = TRUE
    /\ conn_state' = "reused"
    /\ Build
    /\ pc' = "header"
    /\ just_ready' = FALSE
    /\ UNCHANGED <<conn_socket, sock_open, ret, net>>

\* no address for the host (lines 276-285), or socket() fails (lines 287-292)
influx_no_socket ==
    /\ Entry
    /\ ConnEmpty(conn_socket)
    /\ timeout_left' = timeout
    /\ waited' = 0
    /\ connected' = FALSE
    /\ had_conn' = FALSE
    /\ conn_state' = "none"
    /\ NoBuild
    /\ \/ UNCHANGED conn_socket
       \/ conn_socket' = -1
    /\ Return(0)
    /\ UNCHANGED <<sock_open, clock, net>>

\* socket() succeeds and connect() returns 0: lines 287-325
influx_connect_sync ==
    /\ Entry
    /\ ConnEmpty(conn_socket)
    /\ timeout_left' = timeout
    /\ \E c \in 0..(TicksPerSec - 1) : clock' = c
    /\ waited' = 0
    /\ conn_socket' = SockFd
    /\ sock_open' = TRUE
    /\ rx' = <<>>
    /\ in_flight' = <<>>
    /\ connected' = TRUE
    /\ had_conn' = TRUE
    /\ conn_state' = "sync"
    /\ Build
    /\ pc' = "header"
    /\ just_ready' = FALSE
    /\ UNCHANGED ret

\* connect() reports EINPROGRESS and the socket becomes writable after w ticks:
\* lines 326-345
influx_connect_wait ==
    /\ Entry
    /\ ConnEmpty(conn_socket)
    /\ \E c \in 0..(TicksPerSec - 1), w \in 0..(ConnectWaitSecs * TicksPerSec) :
          /\ clock' = (c + w) % TicksPerSec
          /\ waited' = w
          /\ timeout_left' = timeout - ((c + w) \div TicksPerSec) * TicksPerSec
    /\ conn_socket' = SockFd
    /\ sock_open' = TRUE
    /\ rx' = <<>>
    /\ in_flight' = <<>>
    /\ connected' = TRUE
    /\ had_conn' = TRUE
    /\ conn_state' = "waited"
    /\ Build
    /\ pc' = "header"
    /\ just_ready' = TRUE
    /\ UNCHANGED ret

\* the failure paths of connect with the socket left open and in conn_socket
influx_connect_fail_open ==
    /\ Entry
    /\ ConnEmpty(conn_socket)
    /\ timeout_left' = timeout
    /\ \E c \in 0..(TicksPerSec - 1) :
          \/ /\ clock' = c
             /\ waited' = 0
             /\ conn_state' = "refused"
          \/ /\ clock' = c
             /\ waited' = ConnectWaitSecs * TicksPerSec
             /\ conn_state' = "wait_failed"
    /\ connected' = TRUE
    /\ had_conn' = TRUE
    /\ NoBuild
    /\ conn_socket' = SockFd
    /\ sock_open' = TRUE
    /\ UNCHANGED net
    /\ Return(0)

\* connect() fails (lines 346-351), or the wait for the connection times out or
\* fails (lines 334-338)
influx_connect_fail ==
    /\ Entry
    /\ ConnEmpty(conn_socket)
    /\ timeout_left' = timeout
    /\ \E c \in 0..(TicksPerSec - 1) :
          \/ /\ clock' = c
             /\ waited' = 0
             /\ conn_state' = "refused"
          \/ /\ clock' = c
             /\ waited' = ConnectWaitSecs * TicksPerSec
             /\ conn_state' = "wait_failed"
    /\ connected' = TRUE
    /\ had_conn' = TRUE
    /\ NoBuild
    /\ CLOSE
    /\ Return(0)

\* write() returns the full length: of the header (lines 394-396), or of the
\* body (lines 429-431), and the server, which has the whole request, answers
WriteFull(phase, next) ==
    /\ pc = phase
    /\ pc' = next
    /\ just_ready' = FALSE
    /\ NoWait
    /\ IF phase = "header"
          THEN /\ hdr_sent' = "full"
               /\ UNCHANGED <<body_state, body_sent, net, resp_tag>>
          ELSE /\ body_state' = "full"
               /\ body_sent' = body
               /\ \E t \in {"ok", "bad"}, n \in {ShortResp, LongResp} :
                     /\ resp_tag' = t
                     /\ in_flight' = Append(in_flight, [tag |-> t, n |-> n])
               /\ UNCHANGED <<hdr_sent, rx>>
    /\ UNCHANGED <<timeout, conn_socket, sock_open, timeout_left, ret, connected,
                   entry_open, entry_ret, had_conn, answer_len, req, conn_state,
                   reading, classified, io_failed, term_at, non_influx>>

\* write() returns a short count: a part of the header or of the body went to
\* the socket
Short(phase) ==
    IF phase = "header"
       THEN /\ hdr_sent' = "part"
            /\ UNCHANGED <<body_state, body_sent>>
       ELSE /\ \E k \in 1..(Len(body) - 1) :
                  /\ body_state' = "part"
                  /\ body_sent' = SubSeq(body, 1, k)
            /\ UNCHANGED hdr_sent

\* a short count taken for a full write: the call goes on to the next phase
WriteShortAdvances(phase) ==
    /\ pc = phase
    /\ \/ /\ Short(phase)
          /\ pc' = IF phase = "header" THEN "body" ELSE "read"
          /\ just_ready' = FALSE
          /\ UNCHANGED <<conn_socket, sock_open, ret, net>>
       \/ /\ UNCHANGED sent
          /\ CLOSE
          /\ Return(0)
    /\ NoWait
    /\ UNCHANGED <<timeout, timeout_left, connected, entry_open, entry_ret,
                   had_conn, answer_len, req, hist, non_influx>>

\* write() returns a short count or fails with another error: lines 397-399,
\* 432-434
WriteFail(phase) ==
    /\ pc = phase
    /\ \/ Short(phase)
       \/ UNCHANGED sent
    /\ CLOSE
    /\ Return(0)
    /\ NoWait
    /\ UNCHANGED <<timeout, timeout_left, connected, entry_open, entry_ret,
                   had_conn, answer_len, req, hist, non_influx>>

\* write() would block and epoll_wait returns no ready descriptor (timeout or
\* error): lines 372-384, 406-419
WriteWaitFail(phase) ==
    /\ pc = phase
    /\ ~just_ready
    /\ \E w \in WaitTimes(timeout_left) : Advance(w)
    /\ CLOSE
    /\ Return(0)
    /\ UNCHANGED <<timeout, timeout_left, connected, entry_open, entry_ret,
                   had_conn, answer_len, req, sent, hist, non_influx>>

\* write() would block and the socket becomes writable after w ticks: the time is
\* deducted, and the call returns when nothing is left: lines 385-393, 420-428
WriteWaitReady(phase) ==
    /\ pc = phase
    /\ ~just_ready
    /\ \E w \in WaitTimes(timeout_left) :
          /\ Advance(w)
          /\ timeout_left' = Deduct(w)
          /\ IF Deduct(w) <= 0
                THEN /\ Return(0)
                     /\ UNCHANGED <<conn_socket, sock_open>>
                ELSE /\ just_ready' = TRUE
                     /\ UNCHANGED <<pc, ret, conn_socket, sock_open>>
    /\ UNCHANGED <<timeout, connected, entry_open, entry_ret, had_conn, answer_len,
                   req, sent, net, hist, non_influx>>

\* write() or read() would block, the timeout handed to epoll_wait is negative
\* and the socket never becomes ready: the wait does not return
WaitForever(phase) ==
    /\ pc = phase
    /\ ~just_ready
    /\ timeout_left < 0
    /\ phase = "read" => Avail(rx) = 0
    /\ pc' = "blocked"
    /\ UNCHANGED <<timeout, conn_socket, sock_open, timeout_left, clock, just_ready,
                   ret, waited, connected, entry_open, entry_ret, had_conn,
                   answer_len, req, sent, net, hist, non_influx>>

influx_header_full == WriteFull("header", "body")
influx_header_fail == WriteFail("header")
influx_header_wait_fail == WriteWaitFail("header")
influx_header_wait_ready == WriteWaitReady("header")
influx_header_wait_forever == WaitForever("header")

influx_body_full == WriteFull("body", "read")
influx_body_fail == WriteFail("body")
influx_body_wait_fail == WriteWaitFail("body")
influx_body_wait_ready == WriteWaitReady("body")
influx_body_wait_forever == WaitForever("body")

\* bytes of the response arrive at the socket. Only read() looks at them, so
\* they arrive while the call is in its read phase.
response_arrives ==
    /\ pc = "read"
    /\ in_flight # <<>>
    /\ \E k \in Chunks(Head(in_flight)) : Arrive(k)
    /\ UNCHANGED <<timeout, conn_socket, sock_open, pc, timeout_left, clock,
                   just_ready, ret, waited, connected, entry_open, entry_ret,
                   had_conn, answer_len, req, sent, hist, non_influx>>

\* read() would block and the socket becomes readable after w ticks, by bytes
\* that arrive or by the end of the connection; nothing is deducted:
\* lines 445-460
influx_read_wait_ready ==
    /\ pc = "read"
    /\ ~just_ready
    /\ Avail(rx) = 0
    /\ \E w \in WaitTimes(timeout_left) : Advance(w)
    /\ \/ /\ in_flight # <<>>
          /\ \E k \in Chunks(Head(in_flight)) : Arrive(k)
       \/ UNCHANGED net
    /\ just_ready' = TRUE
    /\ reading' = TRUE
    /\ UNCHANGED <<timeout, conn_socket, sock_open, pc, timeout_left, ret,
                   connected, entry_open, entry_ret, had_conn, answer_len, req,
                   sent, conn_state, classified, resp_tag, io_failed, term_at,
                   non_influx>>

\* read() would block and epoll_wait returns no ready descriptor: lines 454-459
influx_read_wait_fail ==
    /\ pc = "read"
    /\ ~just_ready
    /\ Avail(rx) = 0
    /\ \E w \in WaitTimes(timeout_left) : Advance(w)
    /\ reading' = TRUE
    /\ io_failed' = TRUE
    /\ CLOSE
    /\ Return(0)
    /\ UNCHANGED <<timeout, timeout_left, connected, entry_open, entry_ret,
                   had_conn, answer_len, req, sent, conn_state, classified,
                   resp_tag, term_at, non_influx>>

influx_read_wait_forever == WaitForever("read")

\* read() fails with another error or returns end of file, or returns the
\* fewer than 23 bytes that are there: lines 443, 461-467
influx_read_fail ==
    /\ pc = "read"
    /\ \/ /\ Avail(rx) = 0
          /\ \E n \in {-1, 0} : answer_len' = n
          /\ io_failed' = TRUE
       \/ /\ Avail(rx) \in 1..(MinAnswer - 1)
          /\ answer_len' = Avail(rx)
          /\ UNCHANGED io_failed
    /\ reading' = TRUE
    /\ CLOSE
    /\ Return(0)
    /\ NoWait
    /\ UNCHANGED <<timeout, timeout_left, connected, entry_open, entry_ret, had_conn,
                   req, sent, conn_state, classified, resp_tag, term_at, non_influx>>

\* the indices of char answer[128]
AnswerIndices == 0..(AnswerSize - 1)

\* answer[read_bytes] = '\0': line 470, whatever read_bytes is
Terminate(n) == term_at' = n

\* read() returns at least 23 bytes, at most sizeof(answer), which are
\* terminated and compared with the 204 status line: lines 443, 461-463, 470-483
influx_read_answer ==
    /\ pc = "read"
    /\ Avail(rx) >= MinAnswer
    /\ LET n == IF Avail(rx) < AnswerSize THEN Avail(rx) ELSE AnswerSize
       IN /\ answer_len' = n
          /\ \/ /\ IF Matches(rx)
                      THEN /\ Return(1)
                           /\ rx' = Consume(rx, n)
                           /\ UNCHANGED <<conn_socket, sock_open, in_flight>>
                      ELSE /\ CLOSE
                           /\ Return(0)
                /\ classified' = IF Head(rx).tag = "rest" THEN "stale" ELSE "own"
                /\ Terminate(n)
             \* the store went past the end of answer, which is undefined: besides
             \* going on as above, the process is killed
             \/ /\ n \notin AnswerIndices
                /\ pc' = "crashed"
                /\ Terminate(n)
                /\ UNCHANGED <<conn_socket, sock_open, net, ret, just_ready,
                               classified>>
    /\ reading' = TRUE
    /\ NoWait
    /\ UNCHANGED <<timeout, timeout_left, connected, entry_open, entry_ret, had_conn,
                   req, sent, conn_state, resp_tag, io_failed, non_influx>>

\* ------------------------------------------------------- run_command helpers

\* calculate_difference_ms(start, now): the time between two samples
calculate_difference_ms(a, b) == b - a

\* the time one usleep(delta_ms) takes: 100 ms in src/actions.c (delta_ms = 1e5),
\* 100 microseconds in part_000 (delta_ms = 1e2), which is less than one tick and
\* does or does not cross a tick boundary
SleepTicks(v) == IF v = "actions" THEN {DeltaTicks} ELSE {0, 1}

\* the pipes one call creates: int stdin[2] in src/actions.c, int stdin[2] and
\* int stdout[2] in part_000
Pipes(v) == IF v = "actions" THEN 1 ELSE 2

\* the child still holds the write end of the pipe
WriterOpen == child \in {"forked", "running", "escaped"}

\* the child has a step to take before time passes: it executes the shell,
\* writes into a pipe that has room, or has reached the end of its life
ChildUrgent ==
    \/ child = "forked"
    \/ child = "running" /\ out_left > 0 /\ pipe_len < PipeCap
    \/ child = "running" /\ out_left = 0 /\ life <= MaxLife /\ now >= life

\* return r from run_command
RunReturn(r) == /\ rpc' = "idle"
                /\ rret' = r
                /\ returned_at' = now

\* ------------------------------------------------------- run_command actions

\* pipe() or fork() fails: lines 136-147 (part_000: 134-145). The descriptors of
\* a pipe that was created stay open.
run_no_child ==
    /\ rpc = "idle"
    /\ \E v \in {"actions", "part_000"}, t \in 0..MaxTimeoutMs :
          /\ variant' = v
          /\ timeout_ms' = t
          /\ \/ fds_open' = 0
             \/ /\ v = "part_000"
                /\ fds_open' = 2
             \/ fds_open' = Pipes(v) * 2
    /\ cmd_user' = "none"
    /\ now' = 0
    /\ start' = 0
    /\ sleep_left' = 0
    /\ child' = "none"
    /\ child_end' = "none"
    /\ life' = 0
    /\ ignores_term' = FALSE
    /\ out_left' = 0
    /\ out_total' = 0
    /\ pipe_len' = 0
    /\ exited_at' = -1
    /\ kill_sent' = FALSE
    /\ cmd_executed' = FALSE
    /\ rret' = 0
    /\ returned_at' = 0
    /\ UNCHANGED <<rpc, non_run>>

\* pipe() and fork() succeed; the parent closes its write end and, in
\* src/actions.c, samples the start time: lines 134-181 (part_000: 131-178)
run_fork ==
    /\ rpc = "idle"
    /\ \E v \in {"actions", "part_000"}, t \in 0..MaxTimeoutMs,
          u \in {"none", "valid", "unknown"} :
          /\ variant' = v
          /\ timeout_ms' = t
          /\ cmd_user' = u
          /\ rpc' = IF v = "actions" THEN "poll" ELSE "read0"
          /\ fds_open' = Pipes(v) * 2 - Pipes(v)
    /\ life' = 0
    /\ out_left' = 0
    /\ out_total' = 0
    /\ ignores_term' = FALSE
    /\ now' = 0
    /\ start' = 0
    /\ sleep_left' = 0
    /\ child' = "forked"
    /\ child_end' = "none"
    /\ pipe_len' = 0
    /\ exited_at' = -1
    /\ kill_sent' = FALSE
    /\ cmd_executed' = FALSE
    /\ rret' = -1
    /\ returned_at' = 0
    /\ UNCHANGED non_run

\* the child resolves the user, if any, and executes the shell: lines 148-162.
\* With a user that does not resolve, getpwnam returns NULL and a->pw_uid reads
\* through it; the child that survives the read goes on with some uid.
\* The command then runs for l ticks, writes o blocks of output, and ignores
\* SIGTERM or not.
child_exec ==
    /\ child = "forked"
    /\ child' = "running"
    /\ cmd_executed' = TRUE
    /\ \E l \in 0..(MaxLife + 1), o \in 0..MaxOut, g \in BOOLEAN :
          /\ life' = l
          /\ out_left' = o
          /\ out_total' = o
          /\ ignores_term' = g
    /\ UNCHANGED <<non_run, fds_open, variant, rpc, timeout_ms, cmd_user, now, start,
                   sleep_left, rret, child_end, pipe_len, exited_at, kill_sent,
                   returned_at>>

\* the read through the NULL that getpwnam returned kills the child with SIGSEGV:
\* lines 155-160
child_segv ==
    /\ child = "forked"
    /\ cmd_user = "unknown"
    /\ child' = "zombie"
    /\ child_end' = "segv"
    /\ exited_at' = now
    /\ UNCHANGED <<non_run, fds_open, variant, rpc, timeout_ms, cmd_user, now, start,
                   sleep_left, rret, life, ignores_term, out_left, out_total,
                   pipe_len, kill_sent, cmd_executed, returned_at>>

\* execl fails and the child returns 0 from run_command: lines 162-165
child_exec_fail ==
    /\ child = "forked"
    /\ child' = "escaped"
    /\ UNCHANGED <<non_run, fds_open, variant, rpc, timeout_ms, cmd_user, now, start,
                   sleep_left, rret, child_end, life, ignores_term, out_left,
                   out_total, pipe_len, exited_at, kill_sent, cmd_executed,
                   returned_at>>

\* the command writes one block of output into the pipe
child_write ==
    /\ child = "running"
    /\ out_left > 0
    /\ pipe_len < PipeCap
    /\ out_left' = out_left - 1
    /\ pipe_len' = pipe_len + 1
    /\ UNCHANGED <<non_run, fds_open, variant, rpc, timeout_ms, cmd_user, now, start,
                   sleep_left, rret, child, child_end, life, ignores_term,
                   out_total, exited_at, kill_sent, cmd_executed, returned_at>>

\* the command has written its output and reached the end of its life: it exits
child_exit ==
    /\ child = "running"
    /\ out_left = 0
    /\ life <= MaxLife
    /\ now >= life
    /\ child' = "zombie"
    /\ child_end' = "exit"
    /\ exited_at' = now
    /\ UNCHANGED <<non_run, fds_open, variant, rpc, timeout_ms, cmd_user, now, start,
                   sleep_left, rret, life, ignores_term, out_left, out_total,
                   pipe_len, kill_sent, cmd_executed, returned_at>>

\* one tick passes while the parent sleeps in usleep (line 189), is blocked in
\* waitpid (line 199) or is blocked in read on an empty pipe (part_000 line 180)
tick ==
    /\ now < MaxNow
    /\ ~ChildUrgent
    /\ \/ /\ rpc = "sleep"
          /\ sleep_left > 0
          /\ sleep_left' = sleep_left - 1
       \/ /\ rpc = "killwait"
          /\ child # "zombie"
          /\ UNCHANGED sleep_left
       \/ /\ rpc = "read0"
          /\ pipe_len = 0
          /\ WriterOpen
          /\ UNCHANGED sleep_left
    /\ now' = now + 1
    /\ UNCHANGED <<non_run, fds_open, variant, rpc, timeout_ms, cmd_user, start, rret, child,
                   child_end, life, ignores_term, out_left, out_total, pipe_len,
                   exited_at, kill_sent, cmd_executed, returned_at>>

\* part_000 lines 179-183: the parent reads one block of the child's output
run_read_chunk ==
    /\ rpc = "read0"
    /\ pipe_len > 0
    /\ pipe_len' = pipe_len - 1
    /\ UNCHANGED <<non_run, fds_open, variant, rpc, timeout_ms, cmd_user, now, start,
                   sleep_left, rret, child, child_end, life, ignores_term,
                   out_left, out_total, exited_at, kill_sent, cmd_executed,
                   returned_at>>

\* part_000 lines 180-188: read returns 0 at end of file, and only then is the
\* start time sampled
run_read_eof ==
    /\ rpc = "read0"
    /\ pipe_len = 0
    /\ ~WriterOpen
    /\ start' = now
    /\ rpc' = "poll"
    /\ UNCHANGED <<non_run, fds_open, variant, timeout_ms, cmd_user, now, sleep_left, rret,
                   child, child_end, life, ignores_term, out_left, out_total,
                   pipe_len, exited_at, kill_sent, cmd_executed, returned_at>>

\* waitpid(pid, NULL, WNOHANG) finds the child ended: the loop ends, the parent
\* reads what is in the pipe (src/actions.c only) and returns res == pid:
\* lines 183, 204-215
run_poll_done ==
    /\ rpc = "poll"
    /\ child = "zombie"
    /\ child' = "reaped"
    /\ pipe_len' = IF variant = "actions" THEN 0 ELSE pipe_len
    /\ fds_open' = IF variant = "actions" THEN fds_open - 1 ELSE fds_open
    /\ RunReturn(1)
    /\ UNCHANGED <<non_run, variant, timeout_ms, cmd_user, now, start, sleep_left,
                   child_end, life, ignores_term, out_left, out_total, exited_at,
                   kill_sent, cmd_executed>>

\* waitpid(pid, NULL, WNOHANG) returns 0 and the parent goes to sleep:
\* lines 183-189
run_poll_sleep ==
    /\ rpc = "poll"
    /\ child # "zombie"
    /\ rpc' = "sleep"
    /\ \E d \in SleepTicks(variant) : sleep_left' = d
    /\ UNCHANGED <<non_run, fds_open, variant, timeout_ms, cmd_user, now, start, rret, child,
                   child_end, life, ignores_term, out_left, out_total, pipe_len,
                   exited_at, kill_sent, cmd_executed, returned_at>>

\* the sleep is over and the time since start is below timeout_ms: next poll,
\* lines 191-195, 183
run_wake_poll ==
    /\ rpc = "sleep"
    /\ sleep_left = 0
    /\ calculate_difference_ms(start, now) < timeout_ms
    /\ rpc' = "poll"
    /\ UNCHANGED <<non_run, fds_open, variant, timeout_ms, cmd_user, now, start, sleep_left,
                   rret, child, child_end, life, ignores_term, out_left,
                   out_total, pipe_len, exited_at, kill_sent, cmd_executed,
                   returned_at>>

\* the sleep is over and the time since start has reached timeout_ms: the parent
\* sends SIGTERM, which ends a child that does not ignore it (the child that has
\* not executed the shell has the default disposition), and enters the blocking
\* waitpid: lines 191-199
run_wake_kill ==
    /\ rpc = "sleep"
    /\ sleep_left = 0
    /\ calculate_difference_ms(start, now) >= timeout_ms
    /\ kill_sent' = TRUE
    /\ rpc' = "killwait"
    /\ IF child = "zombie" \/ (child = "running" /\ ignores_term)
          THEN UNCHANGED <<child, child_end>>
          ELSE /\ child' = "zombie"
               /\ child_end' = "term"
    /\ UNCHANGED <<non_run, fds_open, variant, timeout_ms, cmd_user, now, start, sleep_left,
                   rret, life, ignores_term, out_left, out_total, pipe_len,
                   exited_at, cmd_executed, returned_at>>

\* the blocking waitpid returns with the ended child and the call returns 0:
\* lines 199-200
run_killwait ==
    /\ rpc = "killwait"
    /\ child = "zombie"
    /\ child' = "reaped"
    /\ RunReturn(0)
    /\ UNCHANGED <<non_run, fds_open, variant, timeout_ms, cmd_user, now, start, sleep_left,
                   child_end, life, ignores_term, out_left, out_total, pipe_len,
                   exited_at, kill_sent, cmd_executed>>

RunNext ==
    \/ run_no_child
    \/ run_fork
    \/ child_exec
    \/ child_segv
    \/ child_exec_fail
    \/ child_write
    \/ child_exit
    \/ tick
    \/ run_read_chunk
    \/ run_read_eof
    \/ run_poll_done
    \/ run_poll_sleep
    \/ run_wake_poll
    \/ run_wake_kill
    \/ run_killwait

\* run_command alone: the endpoint of influx stays as configured
RunInit == Init /\ timeout = 1 /\ conn_socket = 0 /\ line = <<>>

RunSpec == RunInit /\ [][RunNext]_vars

\* ------------------------------------------------------- log_to_file helpers

\* the header put into the stream whenever one is configured, whether the file
\* is new or not
WrittenAnyway(p) ==
    (IF log_header THEN <<Header>> ELSE <<>>) \o <<line_no[p]>>

\* what fputs(action_log->header), fputs(actual_line) put into the stream:
\* lines 238-244
Written(p) ==
    (IF is_new[p] /\ log_header THEN <<Header>> ELSE <<>>) \o <<line_no[p]>>

\* return v from log_to_file
LogReturn(p, v) ==
    /\ lpc' = [lpc EXCEPT ![p] = "idle"]
    /\ lret' = v
    /\ all_ok' = (all_ok /\ v = 1)

\* ------------------------------------------------------- log_to_file actions

\* access(action_log->path, F_OK): lines 225-229
log_access(p) ==
    /\ lpc[p] = "idle"
    /\ n_calls < MaxCalls
    /\ n_calls' = n_calls + 1
    /\ line_no' = [line_no EXCEPT ![p] = n_calls + 1]
    /\ is_new' = [is_new EXCEPT ![p] = ~file_exists]
    /\ lpc' = [lpc EXCEPT ![p] = "access"]
    /\ chown_failed' = FALSE
    /\ UNCHANGED <<non_log, log_header, log_username, init_exists, file_exists,
                   file_content, file_chowned, file_handle, ret_code, lret,
                   all_ok>>

\* fopen(action_log->path, "a") opens the file and creates it if there is none:
\* line 231
log_open(p) ==
    /\ lpc[p] = "access"
    /\ file_exists' = TRUE
    /\ file_handle' = [file_handle EXCEPT ![p] = TRUE]
    /\ lpc' = [lpc EXCEPT ![p] = "open"]
    /\ UNCHANGED <<non_log, log_header, log_username, init_exists, file_content,
                   file_chowned, is_new, line_no, ret_code, lret, n_calls, all_ok,
                   chown_failed>>

\* fopen returns NULL: lines 231-237
log_open_fail(p) ==
    /\ lpc[p] = "access"
    /\ LogReturn(p, 0)
    /\ UNCHANGED <<non_log, log_header, log_username, init_exists, file_exists,
                   file_content, file_chowned, is_new, line_no, file_handle,
                   ret_code, n_calls, chown_failed>>

\* the header, if the file is new and there is one, and the line go into the
\* stream, and fclose writes them at the end of the file: lines 238-246
log_write(p) ==
    /\ lpc[p] = "open"
    /\ file_content' = file_content \o Written(p)
    /\ ret_code' = [ret_code EXCEPT ![p] = 1]
    /\ file_handle' = [file_handle EXCEPT ![p] = FALSE]
    /\ lpc' = [lpc EXCEPT ![p] = "closed"]
    /\ UNCHANGED <<non_log, log_header, log_username, init_exists, file_exists,
                   file_chowned, is_new, line_no, lret, n_calls, all_ok,
                   chown_failed>>

\* fclose fails to write the stream and closes it: line 246
log_write_fail(p) ==
    /\ lpc[p] = "open"
    /\ ret_code' = [ret_code EXCEPT ![p] = 0]
    /\ file_handle' = [file_handle EXCEPT ![p] = FALSE]
    /\ lpc' = [lpc EXCEPT ![p] = "closed"]
    /\ UNCHANGED <<non_log, log_header, log_username, init_exists, file_exists,
                   file_content, file_chowned, is_new, line_no, lret, n_calls,
                   all_ok, chown_failed>>

\* the file is not new or no owner is configured: lines 250, 260
log_return(p) ==
    /\ lpc[p] = "closed"
    /\ ~(is_new[p] /\ log_username # "none")
    /\ LogReturn(p, ret_code[p])
    /\ UNCHANGED <<non_log, log_header, log_username, init_exists, file_exists,
                   file_content, file_chowned, is_new, line_no, file_handle,
                   ret_code, n_calls, chown_failed>>

\* the file is new and an owner is configured: getpwnam, then chown succeeds or
\* fails, which is logged: lines 250-260. With an owner that does not resolve,
\* getpwnam returns NULL and user_passwd->pw_uid reads through it; the process
\* that survives the read calls chown with some ids.
log_chown(p) ==
    /\ lpc[p] = "closed"
    /\ is_new[p]
    /\ log_username # "none"
    /\ \/ /\ log_username = "valid"
          /\ file_chowned' = TRUE
          /\ chown_failed' = FALSE
       \/ /\ file_chowned' = file_chowned
          /\ chown_failed' = TRUE
    /\ LogReturn(p, ret_code[p])
    /\ UNCHANGED <<non_log, log_header, log_username, init_exists, file_exists,
                   file_content, is_new, line_no, file_handle, ret_code, n_calls>>

\* the read through the NULL that getpwnam returned ends the daemon with SIGSEGV:
\* lines 251-253
log_crash(p) ==
    /\ lpc[p] = "closed"
    /\ is_new[p]
    /\ log_username = "unknown"
    /\ lpc' = [q \in Procs |-> "crashed"]
    /\ chown_failed' = TRUE
    /\ UNCHANGED <<non_log, log_header, log_username, init_exists, file_exists,
                   file_content, file_chowned, is_new, line_no, file_handle,
                   ret_code, lret, n_calls, all_ok>>

\* the calls of log_to_file come one after the other, from one caller
LogNext ==
    \E p \in {1} :
        \/ log_access(p)
        \/ log_open(p)
        \/ log_open_fail(p)
        \/ log_write(p)
        \/ log_write_fail(p)
        \/ log_return(p)
        \/ log_chown(p)
        \/ log_crash(p)

\* log_to_file alone, for every log action and a file that exists or not
LogInit ==
    /\ timeout = 1
    /\ conn_socket = 0
    /\ line = <<>>
    /\ InfluxRest
    /\ RunRest
    /\ log_header \in BOOLEAN
    /\ log_username \in {"none", "valid", "unknown"}
    /\ init_exists \in BOOLEAN
    /\ LogRest
    /\ BusRest

LogSpec == LogInit /\ [][LogNext]_vars

\* the calls of two callers, which take their steps (access, fopen, the writes
\* with fclose, chown and the return) in any order
LogConcNext ==
    \E p \in Procs :
        \/ log_access(p)
        \/ log_open(p)
        \/ log_open_fail(p)
        \/ log_write(p)
        \/ log_write_fail(p)
        \/ log_return(p)
        \/ log_chown(p)
        \/ log_crash(p)

LogConcSpec == LogInit /\ [][LogConcNext]_vars

\* ------------------------------------- restart_system and restart_service

\* finish: sd_bus_error_free, sd_bus_message_unref, sd_bus_unref, return r >= 0:
\* lines 62-67, 124-129
Finish(rv) ==
    /\ error' = FALSE
    /\ msg' = FALSE
    /\ bus' = FALSE
    /\ bus_r' = rv
    /\ bret' = IF rv >= 0 THEN 1 ELSE 0
    /\ bpc' = "idle"

\* the name of restart_service; restart_system has none
Names(f) == IF f = "service" THEN Units ELSE {""}

\* strcpy(service_name, prefix); strcpy(service_name + prefix_len, name):
\* lines 87-92
ObjectPath(f, n) ==
    IF f = "service" THEN <<"/org/freedesktop/systemd1/unit/", n>>
                     ELSE <<"/org/freedesktop/systemd1">>

\* sd_bus_open_system succeeds; restart_service allocates the object path:
\* lines 25-32, 74-94
bus_open ==
    /\ bpc = "idle"
    /\ \E f \in {"system", "service"} :
          /\ bus_fn' = f
          /\ service_name' = (f = "service")
          /\ \E n \in Names(f) : unit' = n
    /\ bus' = TRUE
    /\ \E v \in {0, 1} : bus_r' = v
    /\ bpc' = "opened"
    /\ obj_path' = <<>>
    /\ path' = ""
    /\ UNCHANGED <<non_bus, msg, error, bret>>

\* sd_bus_open_system fails: lines 32-37, 81-86
bus_open_fail ==
    /\ bpc = "idle"
    /\ \E f \in {"system", "service"} :
          /\ bus_fn' = f
          /\ \E n \in Names(f) : unit' = n
    /\ \E e \in BusErrors : Finish(e)
    /\ obj_path' = <<>>
    /\ path' = ""
    /\ UNCHANGED <<non_bus, service_name>>

\* sd_bus_call_method returns the reply; restart_service frees the object path:
\* lines 39-47, 96-112
bus_call ==
    /\ bpc = "opened"
    /\ obj_path' = ObjectPath(bus_fn, unit)
    /\ msg' = TRUE
    /\ \E v \in {0, 1} : bus_r' = v
    /\ service_name' = FALSE
    /\ bpc' = "called"
    /\ UNCHANGED <<non_bus, bus_fn, unit, path, bus, error, bret>>

\* the same, without the free(service_name) of line 109
bus_call_fail_no_free ==
    /\ bpc = "opened"
    /\ obj_path' = ObjectPath(bus_fn, unit)
    /\ \E e \in BusErrors : Finish(e)
    /\ UNCHANGED <<non_bus, bus_fn, unit, path, service_name>>

\* sd_bus_call_method fails and sets the error; restart_service frees the object
\* path: lines 48-52, 106-111
bus_call_fail ==
    /\ bpc = "opened"
    /\ obj_path' = ObjectPath(bus_fn, unit)
    /\ service_name' = FALSE
    /\ \E e \in BusErrors : Finish(e)
    /\ UNCHANGED <<non_bus, bus_fn, unit, path>>

\* sd_bus_message_read reads the job path from the reply: lines 55-67, 115-129
bus_read ==
    /\ bpc = "called"
    /\ \E j \in Jobs : path' = j
    /\ \E v \in {0, 1} : Finish(v)
    /\ UNCHANGED <<non_bus, bus_fn, unit, obj_path, service_name>>

\* sd_bus_message_read fails: lines 56-60, 116-120
bus_read_fail ==
    /\ bpc = "called"
    /\ \E e \in BusErrors : Finish(e)
    /\ UNCHANGED <<non_bus, bus_fn, unit, obj_path, path, service_name>>

BusNext ==
    \/ bus_open
    \/ bus_open_fail
    \/ bus_call
    \/ bus_call_fail
    \/ bus_read
    \/ bus_read_fail

\* restart_system and restart_service alone
BusInit ==
    /\ timeout = 1
    /\ conn_socket = 0
    /\ line = <<>>
    /\ InfluxRest
    /\ RunRest
    /\ LogFixed
    /\ LogRest
    /\ BusRest

BusSpec == BusInit /\ [][BusNext]_vars

Next ==
    \/ influx_reuse
    \/ influx_no_socket
    \/ influx_connect_sync
    \/ influx_connect_wait
    \/ influx_connect_fail
    \/ influx_header_full
    \/ influx_header_fail
    \/ influx_header_wait_fail
    \/ influx_header_wait_ready
    \/ influx_header_wait_forever
    \/ influx_body_full
    \/ influx_body_fail
    \/ influx_body_wait_fail
    \/ influx_body_wait_ready
    \/ influx_body_wait_forever
    \/ response_arrives
    \/ influx_read_wait_ready
    \/ influx_read_wait_fail
    \/ influx_read_wait_forever
    \/ influx_read_fail
    \/ influx_read_answer

Spec == Init /\ [][Next]_vars

\* the steps of one influx call are taken whenever one is possible: the call is
\* a single thread of a running process
LiveSpec == Init /\ [][Next]_vars /\ WF_vars(Next)

\* ------------------------------------------------------------------ claims

\* C1: whenever influx returns failure in a call in which a connection existed
\* or was created, the socket has been closed and conn_socket is empty at return.
C1_FailureCloses ==
    (pc = "idle" /\ ret = 0 /\ had_conn) => (~sock_open /\ conn_socket <= 0)

\* C2: once the remaining budget is zero or below after a deduction, the call
\* takes no further step that starts a write, a read or a readiness wait: no
\* step leaves a position in front of a write or a read with such a budget.
C2_ExhaustedStops ==
    [][~(pc \in {"header", "body", "read"} /\ timeout_left <= 0)]_vars

\* C3: the time one call spends blocked in readiness waits, summed over all its
\* phases, never exceeds the configured timeout.
C3_WaitsWithinTimeout == waited <= timeout

\* C4: every influx call eventually returns.
C4_CallReturns == (pc # "idle") ~> (pc = "idle")

\* C5: after a call that returns success the socket is still open; a call goes
\* through connect only if it found no open connection at entry; and a call that
\* follows a successful call does not connect.
C5_Reuse ==
    /\ (pc = "idle" /\ ret = 1) => (sock_open /\ conn_socket > 0)
    /\ connected => ~entry_open
    /\ entry_ret = 1 => ~connected

\* C5 witness: a second call in a row has returned success on the socket the
\* first one left open, without connecting.
C5_Witness ==
    /\ pc = "idle"
    /\ ret = 1
    /\ entry_ret = 1
    /\ entry_open
    /\ ~connected
    /\ sock_open

\* C6: when the child ends by itself before timeout_ms has elapsed since the
\* fork, run_command returns success.
C6_TerminatingSucceeds ==
    (rpc = "idle" /\ rret # -1 /\ child_end = "exit" /\ exited_at < timeout_ms)
        => rret = 1

\* C7: when the child has not ended by the time timeout_ms has elapsed, run_command
\* sends SIGTERM, reaps the child and returns failure; and the call is never still
\* under way more than one sleep quantum after the deadline.
C7_TimeoutKills ==
    /\ (rpc = "idle" /\ rret # -1 /\ child # "none"
            /\ (exited_at = -1 \/ exited_at > timeout_ms))
          => (kill_sent /\ child = "reaped" /\ rret = 0)
    /\ rpc # "idle" => now <= timeout_ms + DeltaTicks

\* C8: the child never returns from run_command into the caller's code.
C8_ChildNeverReturns == child # "escaped"

\* C9: with a user that does not resolve, run_command returns failure and the
\* command has not been executed.
C9_UnknownUserFails ==
    (rpc = "idle" /\ rret # -1 /\ cmd_user = "unknown")
        => (rret = 0 /\ ~cmd_executed)

\* C10: the child is never blocked on a full pipe while the parent sleeps or
\* waits, and a command that writes more than the pipe holds and would end
\* within timeout_ms if its writes never blocked ends by itself and run_command
\* returns success.
C10_PipeDrained ==
    /\ ~(child = "running" /\ out_left > 0 /\ pipe_len = PipeCap
            /\ rpc \in {"sleep", "killwait"})
    /\ (rpc = "idle" /\ rret # -1 /\ cmd_executed /\ out_total > PipeCap
            /\ life < timeout_ms)
          => (rret = 1 /\ child_end = "exit")

\* C11: by the time run_command or log_to_file returns, it has closed every
\* descriptor and stream it opened.
C11_ResourcesReleased ==
    /\ rpc = "idle" => fds_open = 0
    /\ \A p \in Procs : lpc[p] = "idle" => ~file_handle[p]

\* C12: after calls of log_to_file that all succeeded, with a header configured,
\* on a file that did not exist before the first one, the file holds the header
\* once and then the lines in the order of the calls; and no call writes the
\* header into a file that existed before the first one.
C12_HeaderOnce ==
    /\ (lpc[1] = "idle" /\ n_calls >= 1 /\ all_ok /\ log_header /\ ~init_exists)
          => file_content = <<Header>> \o [i \in 1..n_calls |-> i]
    /\ init_exists => \A i \in DOMAIN file_content : file_content[i] # Header

\* C12 witness: two calls on a new file have returned success and the file holds
\* the header and the two lines.
C12_Witness ==
    /\ lpc[1] = "idle"
    /\ n_calls = 2
    /\ all_ok
    /\ log_header
    /\ ~init_exists
    /\ file_content = <<Header, 1, 2>>

\* C13: when the owner of a new file cannot be set, the process keeps running,
\* log_to_file returns the result of the write, and a line that was written
\* is in the file.
C13_OwnerBestEffort ==
    /\ \A p \in Procs : lpc[p] # "crashed"
    /\ (lpc[1] = "idle" /\ chown_failed)
          => /\ lret = ret_code[1]
             /\ ret_code[1] = 1 =>
                   \E i \in DOMAIN file_content : file_content[i] = line_no[1]

\* C16: when restart_system or restart_service has returned, the bus connection,
\* the reply and the error are released and the object path is freed.
C16_BusReleased ==
    bpc = "idle" => (~bus /\ ~msg /\ ~error /\ ~service_name)

\* C16 witness: restart_service has returned failure after sd_bus_call_method
\* failed, that is after the object path was allocated.
C16_Witness ==
    /\ bpc = "idle"
    /\ bus_fn = "service"
    /\ bret = 0
    /\ obj_path # <<>>
    /\ path = ""

\* C14: the body that goes to the socket is the given line followed by exactly
\* one newline, and the Content-Length value is the length of the line plus one.
C14_BodyIsLineNewline ==
    body_state = "full" =>
        /\ body_sent = line \o <<NL>>
        /\ content_length = Len(line) + 1

\* C15: a call returns success if and only if the header block and the body were
\* written in full and the response of the server to it begins with the 204
\* status line; calls whose read phase ended by a timeout, an error or the end of
\* the connection are left out, they fail whatever the server answered.
C15_SuccessIff204 ==
    (pc = "idle" /\ ret # -1 /\ ~io_failed) =>
        (ret = 1 <=> (hdr_sent = "full" /\ body_state = "full" /\ resp_tag = "ok"))

\* C17: a call whose connect reported in-progress and whose wait for the
\* connection timed out or failed has returned failure, has written no byte of
\* the request, and has left the connection closed and cleared.
C17_ConnectWaitFails ==
    (pc = "idle" /\ conn_state = "wait_failed") =>
        /\ ret = 0
        /\ hdr_sent = "none" /\ body_state = "none" /\ body_sent = <<>>
        /\ ~reading
        /\ ~sock_open /\ conn_socket <= 0

\* a call has returned after the 10 seconds of the wait for the connection
C17_Witness ==
    /\ pc = "idle"
    /\ conn_state = "wait_failed"
    /\ waited = ConnectWaitSecs * TicksPerSec
    /\ ret = 0
    /\ ~sock_open

\* C18: the phases of one call run in the order connect, header, body, read: the
\* header is written on an open connection before anything else, no byte of the
\* body is written before the whole header, no read is started before the whole
\* body was written, and after a partial write of the header or of the body the
\* call is over.
C18_PhaseOrder ==
    /\ pc = "header" => (sock_open /\ hdr_sent = "none" /\ body_state = "none" /\ ~reading)
    /\ pc = "body" => (hdr_sent = "full" /\ body_state = "none" /\ ~reading)
    /\ pc = "read" => (hdr_sent = "full" /\ body_state = "full")
    /\ body_state # "none" => hdr_sent = "full"
    /\ reading => (hdr_sent = "full" /\ body_state = "full")
    /\ (hdr_sent = "part" \/ body_state = "part") => (pc = "idle" /\ ret = 0 /\ ~reading)

\* a call has ended after a part of the body went out behind the whole header
C18_Witness ==
    /\ pc = "idle"
    /\ hdr_sent = "full"
    /\ body_state = "part"
    /\ body_sent # <<>>
    /\ ~reading

\* C19: the read phase does not end on a read that returned fewer than 23 bytes:
\* the call reads on until 23 bytes have been received in all, and stops early
\* only on an error, the end of the connection or a timeout with no data.
C19_ReadsUntilEnough ==
    ~(pc = "idle" /\ reading /\ answer_len \in 1..(MinAnswer - 1))

\* C20: the bytes a call compares with the status line are the first bytes of the
\* response to its own request, never bytes of an earlier response that were
\* left unread on the reused connection.
C20_OwnResponse == classified # "stale"

\* C21: every index of answer that is written lies within 0..127: read() fills
\* the indices below the count it returns, and the terminator stored at
\* read_bytes after the read loop has an index of the buffer too.
C21_IndexInBounds ==
    /\ answer_len <= AnswerSize
    /\ term_at # -1 => term_at \in AnswerIndices

\* the Header lines in the file
HeaderLines == {i \in DOMAIN file_content : file_content[i] = Header}

\* C22: when the calls of two callers on a path that did not exist interleave,
\* the header is in the file at most once, and once all calls have returned
\* success it is there exactly once, as the first line, before every line of a
\* call.
C22_InterleavedHeaderOnce ==
    (log_header /\ ~init_exists) =>
        /\ Cardinality(HeaderLines) <= 1
        /\ ((\A p \in Procs : lpc[p] = "idle") /\ n_calls >= 1 /\ all_ok)
              => HeaderLines = {1}

====
